---- MODULE Spec2Model ----
(***************************************************************************)
(* The SVM model-selection script svm.ipynb as a state machine.            *)
(*                                                                         *)
(* The script runs 10 sample splits one after the other.  For each split   *)
(* it runs 25 rounds; a round draws a random sub-grid of the parameter     *)
(* grid, hands it to GridSearchCV and folds the first scores of the round  *)
(* into a "best score so far" trace of at most 100 entries.  After the     *)
(* rounds it fits a final SVC with the parameters the last grid search     *)
(* judged best, measures its accuracy on the held-out part, and stores the *)
(* accuracy, the parameters and the trace.  After the 10 splits it picks   *)
(* the split of highest accuracy, builds the results table and plots the   *)
(* trace of the winning split.                                             *)
(*                                                                         *)
(* The variables carry the names of the script's variables.  What the      *)
(* libraries answer (the values numpy draws, the scores the cross          *)
(* validation reports, the accuracy on the held-out part, whether a fit    *)
(* raises) is the environment: every action draws it from the sets of the  *)
(* environment its specification names.                                    *)
(*                                                                         *)
(* Scores are whole numbers 0..MaxScore (a score s stands for the mean     *)
(* accuracy s/MaxScore), accuracies are 0..MaxAcc, and the values of the   *)
(* parameter grid are written as their base-10 exponents.                  *)
(*                                                                         *)
(* Spec       every sequence of 10 held-out accuracies                     *)
(* SearchSpec the score vectors of the wide search, in the last split      *)
(* SampleSpec the draws of the sub-grid, in the last split                 *)
(* FairSpec   fits that raise, anywhere; a step that can be taken is taken *)
(***************************************************************************)
EXTENDS Integers, Sequences, FiniteSets, TLC

\* ------------------------------------------------------------------ constants
\* for i in range(10)
NumSamples == 10
\* for mini_iter in range(25)
NumRounds == 25
\* np.random.choice(..., size=2)
DrawSize == 2
\* range(min(4, len(...)))
MaxAdmit == 4
\* if iteration_count < 100
MaxIterations == 100

\* --------------------------------------------------------------------- bounds
\* the scores the cross validation can report are 0..MaxScore
MaxScore == 1
\* the held-out accuracies are 0..MaxAcc
MaxAcc == 1

\* ------------------------------------------------------------------- helpers
Min2(a, b) == IF a <= b THEN a ELSE b

\* Python's max(a, b): b only when it is strictly greater
Max2(a, b) == IF b > a THEN b ELSE a

Last(s) == s[Len(s)]

\* param_grid: C = logspace(-2, 3, 6), gamma = logspace(-3, 0, 4), as exponents
param_grid ==
    [C      |-> <<-2, -1, 0, 1, 2, 3>>,
     kernel |-> <<"linear", "rbf">>,
     gamma  |-> <<-3, -2, -1, 0>>]

\* np.random.choice(values, size): every sequence of `size` draws, with replacement
Choice(values, size) ==
    {[k \in 1..size |-> values[f[k]]] : f \in [1..size -> 1..Len(values)]}

\* C_sample, kernel_sample, gamma_sample: what the three draws of a round can be
DrawC == Choice(param_grid.C, DrawSize)

DrawKernel == Choice(param_grid.kernel, Min2(DrawSize, Len(param_grid.kernel)))

DrawGamma == Choice(param_grid.gamma, DrawSize)

\* a sequence without its repeated values
RECURSIVE Dedup(_)
Dedup(s) ==
    IF s = <<>> THEN <<>>
    ELSE LET r == Dedup(SubSeq(s, 1, Len(s) - 1))
         IN IF \E k \in 1..Len(r) : r[k] = Last(s) THEN r ELSE Append(r, Last(s))

\* the combinations GridSearchCV materialises from a sub-grid, in its order:
\* keys sorted (C, gamma, kernel), the last key varying fastest
GridOf(g) ==
    LET nc == Len(g.C)
        ng == Len(g.gamma)
        nk == Len(g.kernel)
    IN [k \in 1..(nc * ng * nk) |->
           [C      |-> g.C[((k - 1) \div (ng * nk)) + 1],
            gamma  |-> g.gamma[(((k - 1) \div nk) % ng) + 1],
            kernel |-> g.kernel[((k - 1) % nk) + 1]]]

\* variant: the combinations of a sub-grid whose repeated draws are dropped
ParameterGridDedup(g) ==
    GridOf([C |-> Dedup(g.C), kernel |-> Dedup(g.kernel), gamma |-> Dedup(g.gamma)])

ParameterGrid(g) == GridOf(g)

\* the first position of the highest value of s, scanning from k
RECURSIVE ArgMaxFrom(_, _, _)
ArgMaxFrom(s, k, best) ==
    IF k > Len(s) THEN best
    ELSE ArgMaxFrom(s, k + 1, IF s[k] > s[best] THEN k ELSE best)

\* variant: the last position of the maximum
ArgMaxLast(s) ==
    CHOOSE k \in 1..Len(s) :
        /\ \A m \in 1..Len(s) : s[m] <= s[k]
        /\ \A m \in (k + 1)..Len(s) : s[m] < s[k]

\* np.argmax: the first position of the maximum (1-based here)
ArgMax(s) == ArgMaxFrom(s, 2, 1)

\* best_index_ of a fitted GridSearchCV: rank 1, the first of the highest scores
BestIndex(scores) == ArgMaxFrom(scores, 2, 1)

\* ------------------------------------------------------------- environments
\* The scores of a round of n combinations: a for the first combination, b for
\* the second to fourth, c for the others.
ScoreVector(n, lv) ==
    [k \in 1..n |-> IF k = 1 THEN lv[1] ELSE IF k <= MaxAdmit THEN lv[2] ELSE lv[3]]

Scores == 0..MaxScore

Accs == 0..MaxAcc

\* one sub-grid per sample split, in which no value is drawn twice
FixedSubgrid(p) ==
    [C      |-> <<param_grid.C[(p % 6) + 1], param_grid.C[((p + 1) % 6) + 1]>>,
     kernel |-> <<param_grid.kernel[(p % 2) + 1], param_grid.kernel[((p + 1) % 2) + 1]>>,
     gamma  |-> <<param_grid.gamma[(p % 4) + 1], param_grid.gamma[((p + 1) % 4) + 1]>>]

FixedLevel(p) == p % (MaxScore + 1)

\* An environment says, for sample split p (0-based), which sub-grids can be
\* drawn, which scores the search can report, which accuracies the held-out
\* part can give, and whether a fit can raise.
\*  "run":    every split has every accuracy; the scores of a split are flat
\*            at a level that differs between neighbours; nothing raises
\*  "search": the last split has the score vectors of SearchLevels; the splits
\*            before it are fixed, nothing raises
\*  "sample": the last split has every draw of each dimension of the sub-grid
\*            (one dimension at a time, the two others as in the fixed
\*            sub-grid); nothing raises
\*  "raise":  every split is fixed; any search fit and any final fit can raise
\* The script's control flow reads none of the values drawn, so each
\* environment takes the script through the same steps.
Draws(env, p) ==
    IF env = "sample" /\ p = NumSamples - 1
    THEN {[FixedSubgrid(p) EXCEPT !.C = c] : c \in DrawC}
            \cup {[FixedSubgrid(p) EXCEPT !.kernel = k] : k \in DrawKernel}
            \cup {[FixedSubgrid(p) EXCEPT !.gamma = g] : g \in DrawGamma}
    ELSE {FixedSubgrid(p)}

\* the score vectors of the wide search: the admitted four equal and the
\* others at any level, a first score above the next three, and one below them
SearchLevels ==
    {<<a, a, c>> : a \in Scores, c \in Scores}
        \cup {<<MaxScore, 0, 0>>, <<0, MaxScore, 0>>}

Levels(env, p) ==
    IF env = "search" /\ p = NumSamples - 1 THEN SearchLevels
    ELSE IF env = "sample" /\ p = NumSamples - 1
         THEN {<<1, 1, 1>>, <<0, 1, 1>>}
         ELSE {<<FixedLevel(p), FixedLevel(p), FixedLevel(p)>>}

Accuracies(env, p) ==
    IF env = "run" THEN Accs ELSE {p % (MaxAcc + 1)}

Outcomes(env) ==
    IF env = "raise" THEN {TRUE, FALSE} ELSE {TRUE}

\* ---------------------------------------------------------------------- state
VARIABLES
    pc,                 \* where the script is
    i,                  \* the sample split, 0-based
    mini_iter,          \* the round, 0-based
    grid_search,        \* the GridSearchCV object of the last round
    convergence_scores,
    best_score_so_far,
    iteration_count,
    best_params,
    best_model,
    accuracies,
    best_params_list,
    convergence_data,   \* keyed by the sample number, 1-based ("S1".."S10")
    best_sample_idx,
    results_table,
    chart,              \* what plt.plot was given
    fed,                \* history: the positions of the scores admitted this round
    admitted,           \* history: the scores admitted in this sample split
    rejected,           \* history: entries the guard iteration_count < 100 refused
    calls,              \* history: calls of split, search fit, final fit, predict
    raised              \* history: a fit has raised

vars ==
    <<pc, i, mini_iter, grid_search, convergence_scores, best_score_so_far,
      iteration_count, best_params, best_model, accuracies, best_params_list,
      convergence_data, best_sample_idx, results_table, chart, fed, admitted,
      rejected, calls, raised>>

NoParams == [C |-> 0, gamma |-> 0, kernel |-> "none"]

NoGrid == [C |-> <<>>, kernel |-> <<>>, gamma |-> <<>>]

Unfitted ==
    [param_grid |-> NoGrid, mean_test_score |-> <<>>, best_index_ |-> 0,
     best_params_ |-> NoParams, round |-> -1]

NoModel == [params |-> NoParams, fitted |-> FALSE]

NoChart == [sample |-> 0, x |-> <<>>, y |-> <<>>]

Init ==
    /\ pc = "split"
    /\ i = 0
    /\ mini_iter = 0
    /\ grid_search = Unfitted
    /\ convergence_scores = <<>>
    /\ best_score_so_far = 0
    /\ iteration_count = 0
    /\ best_params = NoParams
    /\ best_model = NoModel
    /\ accuracies = <<>>
    /\ best_params_list = <<>>
    /\ convergence_data = <<>>
    /\ best_sample_idx = -1
    /\ results_table = <<>>
    /\ chart = NoChart
    /\ fed = <<>>
    /\ admitted = {}
    /\ rejected = 0
    /\ calls = [split |-> 0, search |-> 0, fit |-> 0, predict |-> 0]
    /\ raised = FALSE

\* -------------------------------------------------------------------- actions
\* for i in range(10)
MoreSamples == i < NumSamples

\* variant: one round fewer
MoreRoundsShort == mini_iter < NumRounds - 1

\* for mini_iter in range(25)
MoreRounds == mini_iter < NumRounds

\* variant: what a fit raises is swallowed and the loop goes on
UncaughtIgnored == "search"

\* no statement of the script catches what a fit raises: the script ends there
Uncaught == "failed"

\* variant: the loop head without best_score_so_far = 0
StartPartitionKeepBest ==
    /\ pc = "split"
    /\ MoreSamples
    /\ pc' = "search"
    /\ mini_iter' = 0
    /\ convergence_scores' = <<>>
    /\ iteration_count' = 0
    /\ fed' = <<>>
    /\ admitted' = {}
    /\ rejected' = 0
    /\ calls' = [calls EXCEPT !.split = @ + 1]
    /\ UNCHANGED <<i, grid_search, best_score_so_far, best_params, best_model,
                   accuracies, best_params_list, convergence_data, best_sample_idx,
                   results_table, chart, raised>>

\* the head of the loop over the sample splits: the split and the fresh search state
StartPartition ==
    /\ pc = "split"
    /\ MoreSamples
    /\ pc' = "search"
    /\ mini_iter' = 0
    /\ convergence_scores' = <<>>
    /\ best_score_so_far' = 0
    /\ iteration_count' = 0
    /\ fed' = <<>>
    /\ admitted' = {}
    /\ rejected' = 0
    /\ calls' = [calls EXCEPT !.split = @ + 1]
    /\ UNCHANGED <<i, grid_search, best_params, best_model, accuracies,
                   best_params_list, convergence_data, best_sample_idx,
                   results_table, chart, raised>>

\* one round up to grid_search.fit: the three draws, the new GridSearchCV, its fit
SearchRound(env) ==
    /\ pc = "search"
    /\ MoreRounds
    /\ calls' = [calls EXCEPT !.search = @ + 1]
    /\ \E ok \in Outcomes(env) :
          IF ok
          THEN \E g \in Draws(env, i), lv \in Levels(env, i) :
                  LET configs == ParameterGrid(g)
                      scores  == ScoreVector(Len(configs), lv)
                  IN /\ grid_search' =
                            [param_grid      |-> g,
                             mean_test_score |-> scores,
                             best_index_     |-> BestIndex(scores),
                             best_params_    |-> configs[BestIndex(scores)],
                             round           |-> mini_iter]
                     /\ pc' = "record"
                     /\ UNCHANGED raised
          ELSE /\ grid_search' = Unfitted
               /\ pc' = Uncaught
               /\ raised' = TRUE
    /\ fed' = <<>>
    /\ UNCHANGED <<i, mini_iter, convergence_scores, best_score_so_far,
                   iteration_count, best_params, best_model, accuracies,
                   best_params_list, convergence_data, best_sample_idx,
                   results_table, chart, admitted, rejected>>

\* variant: every score of the round
AdmitCountAll(scores) == Len(scores)

\* range(min(4, len(mean_test_score)))
AdmitCount(scores) == Min2(MaxAdmit, Len(scores))

\* variant: the position of the j-th highest score of the round
TopIndex(scores, j) ==
    LET above(k) == Cardinality({m \in 1..Len(scores) :
                        scores[m] > scores[k] \/ (scores[m] = scores[k] /\ m < k)})
    IN CHOOSE k \in 1..Len(scores) : above(k) = j - 1

\* score = mean_test_score[j]: the position read at step j of the loop
RoundIndex(scores, j) == j

\* variant: the score itself is appended
AdmitStepRaw(st, scores, q) ==
    IF st.iteration_count < MaxIterations
    THEN [st EXCEPT !.convergence_scores = Append(@, scores[q]),
                    !.best_score_so_far = Max2(@, scores[q]),
                    !.iteration_count = @ + 1,
                    !.fed = Append(@, q),
                    !.admitted = @ \cup {scores[q]}]
    ELSE [st EXCEPT !.rejected = @ + 1]

\* variant: best_score_so_far = score
AdmitStepLatest(st, scores, q) ==
    IF st.iteration_count < MaxIterations
    THEN [st EXCEPT !.convergence_scores =
                        Append(@, Max2(st.best_score_so_far, scores[q])),
                    !.best_score_so_far = scores[q],
                    !.iteration_count = @ + 1,
                    !.fed = Append(@, q),
                    !.admitted = @ \cup {scores[q]}]
    ELSE [st EXCEPT !.rejected = @ + 1]

\* the body of the admission loop for the score at position q
AdmitStep(st, scores, q) ==
    IF st.iteration_count < MaxIterations
    THEN [st EXCEPT !.convergence_scores =
                        Append(@, Max2(st.best_score_so_far, scores[q])),
                    !.best_score_so_far = Max2(@, scores[q]),
                    !.iteration_count = @ + 1,
                    !.fed = Append(@, q),
                    !.admitted = @ \cup {scores[q]}]
    ELSE [st EXCEPT !.rejected = @ + 1]

\* for j in range(min(4, len(mean_test_score))): ...
RECURSIVE AdmitLoop(_, _, _)
AdmitLoop(st, scores, j) ==
    IF j > AdmitCount(scores) THEN st
    ELSE AdmitLoop(AdmitStep(st, scores, RoundIndex(scores, j)), scores, j + 1)

\* the admission loop of a round, and the step to the next round
Record ==
    /\ pc = "record"
    /\ LET st == AdmitLoop([convergence_scores |-> convergence_scores,
                            best_score_so_far  |-> best_score_so_far,
                            iteration_count    |-> iteration_count,
                            fed                |-> fed,
                            admitted           |-> admitted,
                            rejected           |-> rejected],
                           grid_search.mean_test_score, 1)
       IN /\ convergence_scores' = st.convergence_scores
          /\ best_score_so_far' = st.best_score_so_far
          /\ iteration_count' = st.iteration_count
          /\ fed' = st.fed
          /\ admitted' = st.admitted
          /\ rejected' = st.rejected
    /\ mini_iter' = mini_iter + 1
    /\ pc' = "search"
    /\ UNCHANGED <<i, grid_search, best_params, best_model, accuracies,
                   best_params_list, convergence_data, best_sample_idx,
                   results_table, chart, calls, raised>>

\* variant: the first combination of the last round
SelectedParamsFirst == ParameterGrid(grid_search.param_grid)[1]

\* best_params = grid_search.best_params_
SelectedParams == grid_search.best_params_

\* best_params = ...; best_model = SVC(**best_params); best_model.fit(...)
FinalFit(env) ==
    /\ pc = "search"
    /\ ~MoreRounds
    /\ best_params' = SelectedParams
    /\ calls' = [calls EXCEPT !.fit = @ + 1]
    /\ \E ok \in Outcomes(env) :
          /\ best_model' = [params |-> SelectedParams, fitted |-> ok]
          /\ pc' = IF ok THEN "evaluate" ELSE Uncaught
          /\ raised' = (raised \/ ~ok)
    /\ UNCHANGED <<i, mini_iter, grid_search, convergence_scores,
                   best_score_so_far, iteration_count, accuracies,
                   best_params_list, convergence_data, best_sample_idx,
                   results_table, chart, fed, admitted, rejected>>

\* predict, accuracy_score, and the three stores of the sample split's result
Evaluate(env) ==
    /\ pc = "evaluate"
    /\ \E accuracy \in Accuracies(env, i) :
          accuracies' = Append(accuracies, accuracy)
    /\ best_params_list' = Append(best_params_list, best_params)
    /\ convergence_data' = Append(convergence_data, convergence_scores)
    /\ calls' = [calls EXCEPT !.predict = @ + 1]
    /\ i' = i + 1
    /\ pc' = "split"
    /\ UNCHANGED <<mini_iter, grid_search, convergence_scores, best_score_so_far,
                   iteration_count, best_params, best_model, best_sample_idx,
                   results_table, chart, fed, admitted, rejected, raised>>

\* best_sample_idx = np.argmax(accuracies); best_params = best_params_list[...]
Aggregate ==
    /\ pc = "split"
    /\ ~MoreSamples
    /\ best_sample_idx' = ArgMax(accuracies) - 1
    /\ best_params' = best_params_list[ArgMax(accuracies)]
    /\ pc' = "table"
    /\ UNCHANGED <<i, mini_iter, grid_search, convergence_scores,
                   best_score_so_far, iteration_count, best_model, accuracies,
                   best_params_list, convergence_data, results_table, chart, fed,
                   admitted, rejected, calls, raised>>

\* f"{a:.4f}" of the accuracy a/MaxAcc, in ten-thousandths
Format4(a) == ((2 * 10000 * a) + MaxAcc) \div (2 * MaxAcc)

\* param_str: gamma is left out for the linear kernel
ParamStr(p) ==
    IF p.kernel = "linear"
    THEN <<"Kernel", p.kernel, "C", p.C>>
    ELSE <<"Kernel", p.kernel, "C", p.C, "gamma", p.gamma>>

\* the loop that builds results_table
BuildTable ==
    /\ pc = "table"
    /\ results_table' =
          [k \in 1..NumSamples |->
              [sample   |-> k,
               accuracy |-> Format4(accuracies[k]),
               params   |-> ParamStr(best_params_list[k])]]
    /\ pc' = "plot"
    /\ UNCHANGED <<i, mini_iter, grid_search, convergence_scores,
                   best_score_so_far, iteration_count, best_params, best_model,
                   accuracies, best_params_list, convergence_data,
                   best_sample_idx, chart, fed, admitted, rejected, calls, raised>>

\* plt.plot(range(1, len(trace) + 1), convergence_data[best_sample])
Plot ==
    /\ pc = "plot"
    /\ chart' =
          [sample |-> best_sample_idx + 1,
           x      |-> [k \in 1..Len(convergence_data[best_sample_idx + 1]) |-> k],
           y      |-> convergence_data[best_sample_idx + 1]]
    /\ pc' = "done"
    /\ UNCHANGED <<i, mini_iter, grid_search, convergence_scores,
                   best_score_so_far, iteration_count, best_params, best_model,
                   accuracies, best_params_list, convergence_data,
                   best_sample_idx, results_table, fed, admitted, rejected, calls,
                   raised>>

Step(env) ==
    \/ StartPartition
    \/ SearchRound(env)
    \/ Record
    \/ FinalFit(env)
    \/ Evaluate(env)
    \/ Aggregate
    \/ BuildTable
    \/ Plot

Next == Step("run")

Spec == Init /\ [][Next]_vars

NextSearch == Step("search")

SearchSpec == Init /\ [][NextSearch]_vars

NextSample == Step("sample")

SampleSpec == Init /\ [][NextSample]_vars

NextRaise == Step("raise")

\* the script is one sequential process: a step that can be taken is taken
FairSpec == Init /\ [][NextRaise]_vars /\ WF_vars(NextRaise)

\* --------------------------------------------------------------------- claims
MaxOf(S) == CHOOSE x \in S : \A y \in S : y <= x

NonDecreasing(s) == \A k \in 1..(Len(s) - 1) : s[k] <= s[k + 1]

\* the current sample split is the last one, whose search is the wide one
InLastSplit == i = NumSamples - 1

\* a round of the current sample split has been recorded and the next not begun
RoundRecorded == pc = "search" /\ mini_iter >= 1

\* the scores of the last round at the positions the admission loop took
FedScores == [k \in 1..Len(fed) |-> grid_search.mean_test_score[fed[k]]]

\* C1: at all times the trace of the running search, and every stored trace, is
\* non-decreasing and has at most 100 entries.
C1_TraceMonotonicCapped ==
    /\ Len(convergence_scores) <= 100
    /\ NonDecreasing(convergence_scores)
    /\ \A k \in 1..Len(convergence_data) :
          Len(convergence_data[k]) <= 100 /\ NonDecreasing(convergence_data[k])

\* a full trace that rose, in whose last round a score below the best was admitted
C1_Witness ==
    /\ InLastSplit
    /\ Len(convergence_scores) = 100
    /\ convergence_scores[1] < convergence_scores[100]
    /\ \E k \in 1..Len(fed) : FedScores[k] < best_score_so_far

\* the admission loop run on the scores of the last round from a trace that
\* already holds `count` entries (a trace the 8 scores per round never let the
\* script reach short of its last round: the loop is run here as a function)
AdmitLoopFrom(count) ==
    AdmitLoop([convergence_scores |-> [k \in 1..count |-> best_score_so_far],
               best_score_so_far  |-> best_score_so_far,
               iteration_count    |-> count,
               fed                |-> <<>>,
               admitted           |-> admitted,
               rejected           |-> 0],
              grid_search.mean_test_score, 1)

\* C2: the record step of a round appends, for the first min(4, n) of the
\* round's n scores and only while iteration_count < 100, the running maximum
\* to the trace, and counts each; with iteration_count at 100 no step of the
\* search changes the trace, the best score or the count; and the admission
\* loop started with 97 to 100 entries stops admitting at 100 and, started at
\* 100, changes nothing.
C2_RecordStep ==
    /\ [](pc = "record" =>
            \A count \in 97..100 :
                LET st == AdmitLoopFrom(count)
                    m  == Min2(Min2(4, Len(grid_search.mean_test_score)), 100 - count)
                IN /\ st.iteration_count = count + m
                   /\ Len(st.convergence_scores) = count + m
                   /\ st.fed = [k \in 1..m |-> k]
                   /\ st.rejected = Min2(4, Len(grid_search.mean_test_score)) - m
                   /\ count = 100 =>
                        /\ st.convergence_scores = [k \in 1..100 |-> best_score_so_far]
                        /\ st.best_score_so_far = best_score_so_far)
    /\ [][LET scores == grid_search.mean_test_score
               n      == Min2(4, Len(scores))
               m      == IF iteration_count < 100
                         THEN Min2(n, 100 - iteration_count) ELSE 0
               old    == Len(convergence_scores)
           IN /\ pc = "record" =>
                    /\ iteration_count' = iteration_count + m
                    /\ Len(convergence_scores') = old + m
                    /\ SubSeq(convergence_scores', 1, old) = convergence_scores
                    /\ \A k \in 1..m :
                          convergence_scores'[old + k] =
                              MaxOf({best_score_so_far} \cup {scores[q] : q \in 1..k})
                    /\ best_score_so_far' =
                          MaxOf({best_score_so_far} \cup {scores[q] : q \in 1..m})
              /\ (iteration_count >= 100 /\ pc \in {"search", "record"}) =>
                    UNCHANGED <<convergence_scores, best_score_so_far, iteration_count>>
          ]_vars

\* four of the eight scores of a round were admitted, and the trace stayed below
\* a score that was left out
C2_Witness ==
    /\ InLastSplit
    /\ RoundRecorded
    /\ Len(grid_search.mean_test_score) = 8
    /\ Len(convergence_scores) = 4 * mini_iter
    /\ Last(convergence_scores) < grid_search.mean_test_score[5]

\* C3: best_score_so_far is 0 until a score is admitted and from then on the
\* highest of the scores admitted in the sample split; when the 25 rounds of a
\* split are over, scores have been admitted.
C3_BestIsMaxAdmitted ==
    /\ admitted = {} => best_score_so_far = 0
    /\ admitted # {} => best_score_so_far = MaxOf(admitted)
    /\ mini_iter = NumRounds => admitted # {}

\* the rounds are over, different scores were admitted, the last one not the best
C3_Witness ==
    /\ InLastSplit
    /\ mini_iter = NumRounds
    /\ Cardinality(admitted) >= 2
    /\ FedScores[Len(fed)] < best_score_so_far

\* C4 as the spec states it: no score of a round that was left out is higher
\* than a score of the round that was admitted.
C4_TopScoresFed ==
    RoundRecorded =>
        \A q \in 1..Len(grid_search.mean_test_score) :
            (\A k \in 1..Len(fed) : fed[k] # q) =>
                \A k \in 1..Len(fed) :
                    grid_search.mean_test_score[q] <= FedScores[k]

\* C4 as amended: the scores of a round that are admitted are the ones at the
\* first min(4, n) positions of the evaluator's report, in that order.
C4_FirstScoresFed ==
    RoundRecorded =>
        fed = [k \in 1..Min2(4, Len(grid_search.mean_test_score)) |-> k]

\* a round was recorded in which a score that was left out is higher than one
\* that was admitted
C4_Witness ==
    /\ InLastSplit
    /\ RoundRecorded
    /\ \E q \in 5..8, k \in 1..Len(fed) :
          grid_search.mean_test_score[q] > FedScores[k]

\* C5: the parameters of the final fit, and the ones stored for the sample
\* split, are best_params_ of the grid search of the 25th round: the combination
\* at the first highest score of that round.
C5_FinalRoundParams ==
    LET last == grid_search.best_params_
        fromFinalRound ==
            /\ grid_search.round = 24
            /\ \E b \in 1..8 :
                  /\ \A m \in 1..8 :
                        grid_search.mean_test_score[m] <= grid_search.mean_test_score[b]
                  /\ \A m \in 1..(b - 1) :
                        grid_search.mean_test_score[m] < grid_search.mean_test_score[b]
                  /\ last = ParameterGrid(grid_search.param_grid)[b]
    IN /\ pc = "evaluate" =>
            /\ fromFinalRound
            /\ best_params = last
            /\ best_model.params = last
       /\ (pc = "split" /\ i >= 1) =>
            /\ fromFinalRound
            /\ Last(best_params_list) = last

\* the final fit used the last round's parameters although an earlier round
\* had admitted a score above every score of the last round
C5_Witness ==
    /\ InLastSplit
    /\ pc = "evaluate"
    /\ best_model.fitted
    /\ \A q \in 1..8 : grid_search.mean_test_score[q] < best_score_so_far

\* C6: after the 10 sample splits best_sample_idx is the split of the highest
\* accuracy, the lowest such index on a tie, and the chart shows the trace
\* stored for that split.
C6_WinnerIsFirstArgMax ==
    LET b == best_sample_idx + 1
    IN /\ pc \in {"table", "plot", "done"} =>
            /\ Len(accuracies) = 10
            /\ b \in 1..10
            /\ \A k \in 1..10 : accuracies[k] <= accuracies[b]
            /\ \A k \in 1..(b - 1) : accuracies[k] < accuracies[b]
       /\ pc = "done" =>
            /\ chart.sample = b
            /\ chart.y = convergence_data[b]
            /\ chart.x = [k \in 1..Len(convergence_data[b]) |-> k]

\* the run is over, the winner is not the first split, and a later split with
\* another trace has the same accuracy
C6_Witness ==
    /\ pc = "done"
    /\ best_sample_idx >= 1
    /\ \E k \in (best_sample_idx + 2)..10 :
          /\ accuracies[k] = accuracies[best_sample_idx + 1]
          /\ convergence_data[k] # chart.y

\* the calls made when `done` sample splits are complete
CallsAfter(done) ==
    [split |-> done, search |-> 25 * done, fit |-> done, predict |-> done]

\* C7: the run ends (done, or stopped by a fit that raised); between two sample
\* splits every finished split has had one split call, 25 search fits, one
\* final fit and one prediction, the splits are taken in index order, and a run
\* that is done has made 10, 250, 10 and 10 of these calls and holds 10
\* results and the 10 table rows S1..S10 in order.
C7_RunCompletes ==
    /\ <>(pc \in {"done", "failed"})
    /\ [](pc = "split" => calls = CallsAfter(i))
    /\ [][i' = i \/ (i' = i + 1 /\ pc = "evaluate")]_vars
    /\ [](pc = "done" =>
            /\ ~raised
            /\ i = 10
            /\ calls = [split |-> 10, search |-> 250, fit |-> 10, predict |-> 10]
            /\ Len(accuracies) = 10
            /\ Len(best_params_list) = 10
            /\ Len(convergence_data) = 10
            /\ Len(results_table) = 10
            /\ \A k \in 1..10 : results_table[k].sample = k)

\* a run that is done, with its table
C7_Witness ==
    /\ pc = "done"
    /\ Len(results_table) = 10
    /\ calls.search = 250

\* C8: once a fit has raised the script is stopped there: the failing call was
\* made once, nothing is stored for the failing sample split, and there is no
\* winner, no table and no chart.
C8_FailureStopsRun ==
    raised =>
        /\ pc = "failed"
        /\ i < 10
        /\ calls.split = i + 1
        /\ calls.predict = i
        /\ \/ calls.fit = i /\ calls.search = (25 * i) + mini_iter + 1
           \/ calls.fit = i + 1 /\ calls.search = 25 * (i + 1)
        /\ Len(accuracies) = i
        /\ Len(best_params_list) = i
        /\ Len(convergence_data) = i
        /\ best_sample_idx = -1
        /\ results_table = <<>>
        /\ chart = NoChart

\* a search fit raised after some sample splits and some rounds were complete
C8_Witness ==
    /\ raised
    /\ i >= 1
    /\ mini_iter >= 1
    /\ mini_iter < NumRounds
    /\ grid_search = Unfitted

\* C9: every sample split starts its search with best_score_so_far = 0,
\* iteration_count = 0 and an empty trace, and what is stored for a split is
\* never changed by a later step.
C9_FreshStateStoredResultsKept ==
    /\ []((pc = "search" /\ mini_iter = 0) =>
            /\ best_score_so_far = 0
            /\ iteration_count = 0
            /\ convergence_scores = <<>>)
    /\ [][/\ Len(accuracies') >= Len(accuracies)
          /\ SubSeq(accuracies', 1, Len(accuracies)) = accuracies
          /\ SubSeq(best_params_list', 1, Len(best_params_list)) = best_params_list
          /\ SubSeq(convergence_data', 1, Len(convergence_data)) = convergence_data
         ]_vars

\* a sample split starts fresh after one that ended with a best score above 0
\* and a full trace
C9_Witness ==
    /\ pc = "search"
    /\ mini_iter = 0
    /\ i >= 2
    /\ Len(Last(convergence_data)) = 100
    /\ Last(Last(convergence_data)) > 0
    /\ best_score_so_far = 0
    /\ convergence_scores = <<>>

\* C10: every fitted grid search has 8 scores, so every round admits 4: the
\* count and the length of the trace are 4 times the rounds recorded, the last
\* entry of the trace is the best score, the guard never refuses an entry, the
\* count is 100 only when the 25 rounds are over, and a stored trace has 100
\* entries.
C10_FourPerRound ==
    /\ grid_search # Unfitted => Len(grid_search.mean_test_score) = 8
    /\ iteration_count = 4 * mini_iter
    /\ Len(convergence_scores) = iteration_count
    /\ convergence_scores # <<>> => Last(convergence_scores) = best_score_so_far
    /\ rejected = 0
    /\ iteration_count = 100 <=> mini_iter = 25
    /\ \A k \in 1..Len(convergence_data) : Len(convergence_data[k]) = 100

\* the 25 rounds are over with 100 entries, and the last round drew a value twice
C10_Witness ==
    /\ InLastSplit
    /\ pc = "search"
    /\ mini_iter = 25
    /\ iteration_count = 100
    /\ grid_search.param_grid.C[1] = grid_search.param_grid.C[2]
    /\ Len(grid_search.mean_test_score) = 8

====
